---- MODULE Spec2Model ----
(***************************************************************************)
(* A model of colab_and_economics: the synthetic sample-data generator     *)
(* (src/src/data_fetchers.py), the statistics helpers                      *)
(* (src/src/analysis_utils.py) and the names the package exports           *)
(* (src/src/__init__.py).                                                  *)
(*                                                                         *)
(* Numbers.  Generator values are fixed point, in hundredths (0.02 is 2,   *)
(* 5 is 500).  A standard normal variate is an integer number of standard  *)
(* deviations, so normal(mu, sigma) is mu + sigma * z exactly.  Statistics *)
(* are exact fractions <<num, den>>; "NaN", "inf" and "-inf" are the IEEE  *)
(* special values.  Rounding of IEEE doubles is not modelled.              *)
(*                                                                         *)
(* Library semantics are those of the pandas 1.x/2.x line, the only one    *)
(* under which date_range(freq='M') at data_fetchers.py:165 is accepted.   *)
(***************************************************************************)
EXTENDS Integers, Sequences, FiniteSets, TLC

VARIABLES
    rng,    \* state of the process-wide numpy generator (np.random)
    gauss,  \* the generator's output function: state -> standard normal variate
    last,   \* the last call made: operation, arguments, outcome
    ref,    \* an earlier create_sample_data call the caller kept
    arg     \* the Series / DataFrame object the caller passes to the statistics

vars == <<rng, gauss, last, ref, arg>>

(***************************************************************************)
(* Bounds of the model.                                                    *)
(***************************************************************************)
MaxPeriods == 2
RngPeriod == 3
MaxLen == 4
MaxRows == 3
MaxStep == 2
MaxShort == 2

(***************************************************************************)
(* Program constants (data_fetchers.py), in hundredths where fractional.   *)
(***************************************************************************)
Seed == 42
GdpBase == 20000
GdpMean == 2
GdpStd == 1
UnempStart == 500
UnempLo == 200
UnempHi == 1500
InflMean == 200
InflStd == 30
RateMean == 200
RateStd == 50

\* Standard normal variates the generator may produce, in standard deviations.
\* The normal distribution has unbounded support; the far values drive the
\* random walk across both clipping bounds and the rate below zero.
Variates == {-250, 1, 250}

RngStates == 0 .. (RngPeriod - 1)

\* Seeds other callers of np.random.seed use.
OtherSeeds == {0, 7}

\* start_date arguments, as <<year, month, day>>: the default, a month end
\* followed by a year change, and a January month end of a leap year.
StartDates == {<<2015, 1, 1>>, <<2015, 12, 31>>, <<2016, 1, 31>>}

PeriodArgs == (-1) .. MaxPeriods

(***************************************************************************)
(* numpy's global generator.                                               *)
(***************************************************************************)
\* np.random.seed(s): the state is a function of the seed alone.
SeedState(s) == s % RngPeriod

\* One step of the generator.
Advance(s) == (s + 1) % RngPeriod

\* State after k draws.
AdvanceBy(s, k) == (s + k) % RngPeriod

\* np.random.normal(0, 1, k) from state s: the k variates drawn in order.
StandardNormal(s, k) == [i \in 1 .. k |-> gauss[AdvanceBy(s, i - 1)]]

\* np.random.normal(mu, sigma, k) from state s.
Normal(mu, sigma, s, k) == [i \in 1 .. k |-> mu + sigma * StandardNormal(s, k)[i]]

(***************************************************************************)
(* numpy array helpers.                                                    *)
(***************************************************************************)
RECURSIVE SumTo(_, _)
SumTo(xs, i) == IF i = 0 THEN 0 ELSE SumTo(xs, i - 1) + xs[i]

\* np.cumsum
CumSum(xs) == [i \in 1 .. Len(xs) |-> SumTo(xs, i)]

\* A clip that forgets the upper bound.
ClipLowOnly(xs, lo, hi) == [i \in 1 .. Len(xs) |-> IF xs[i] < lo THEN lo ELSE xs[i]]

\* np.clip(xs, lo, hi)
Clip(xs, lo, hi) ==
    [i \in 1 .. Len(xs) |-> IF xs[i] < lo THEN lo ELSE IF xs[i] > hi THEN hi ELSE xs[i]]

\* The draws passed through without the floor.
MaximumDropped(c, xs) == xs

\* np.maximum(c, xs)
Maximum(c, xs) == [i \in 1 .. Len(xs) |-> IF xs[i] < c THEN c ELSE xs[i]]

\* np.exp on hundredths, times the base level: base * exp(g / 100), with exp
\* taken to second order, 1 + x + x^2 / 2 (positive for every x).
ScaledExp(base, g) == base + (base \div 100) * g + (base \div 20000) * g * g

(***************************************************************************)
(* pd.date_range(start, periods, freq='M'): month ends.                    *)
(***************************************************************************)
IsLeap(y) == (y % 4 = 0 /\ y % 100 # 0) \/ y % 400 = 0

DaysInMonth(y, m) ==
    IF m = 2 THEN (IF IsLeap(y) THEN 29 ELSE 28)
    ELSE IF m \in {4, 6, 9, 11} THEN 30 ELSE 31

\* The end of the k-th month after the month of date d (k = 0: d's own month).
\* A start that is not a month end rolls forward to the end of its month.
MonthEnd(d, k) ==
    LET months == d[1] * 12 + (d[2] - 1) + k
        y == months \div 12
        m == (months % 12) + 1
    IN  <<y, m, DaysInMonth(y, m)>>

\* The range without freq='M': one timestamp a day from the start.
DailyRange(d, n) == [i \in 1 .. n |-> <<d[1], d[2], d[3] + (i - 1)>>]

\* pd.date_range(start=d, periods=n, freq='M')
DateRange(d, n) == [i \in 1 .. n |-> MonthEnd(d, i - 1)]

\* Months since year 0 of a timestamp.
MonthIndex(t) == t[1] * 12 + (t[2] - 1)

\* Timestamp order.
DateLess(a, b) ==
    \/ a[1] < b[1]
    \/ a[1] = b[1] /\ a[2] < b[2]
    \/ a[1] = b[1] /\ a[2] = b[2] /\ a[3] < b[3]

(***************************************************************************)
(* create_sample_data.                                                     *)
(***************************************************************************)
ColumnNames == {"gdp", "unemployment_rate", "inflation_rate", "interest_rate"}

\* The four blocks of draws, in program order, each of n variates.
GdpShocks(s, n) == Normal(GdpMean, GdpStd, s, n)
UnempShocks(s, n) == StandardNormal(AdvanceBy(s, n), n)
InflDraws(s, n) == Normal(InflMean, InflStd, AdvanceBy(s, 2 * n), n)
RateDraws(s, n) == Normal(RateMean, RateStd, AdvanceBy(s, 3 * n), n)

\* 5 + np.random.normal(0, 0.5, n).cumsum() * 0.1, before clipping.
UnempWalk(s, n) ==
    LET walk == CumSum([i \in 1 .. n |-> 50 * UnempShocks(s, n)[i]])
    IN  [i \in 1 .. n |-> UnempStart + walk[i] \div 10]

\* pd.DataFrame({...}): the five columns, 'date' among them, on a default index.
RawFrame(s, d, n) ==
    [index |-> [i \in 1 .. n |-> i - 1],
     columns |->
        [date |-> DateRange(d, n),
         gdp |-> [i \in 1 .. n |-> ScaledExp(GdpBase, CumSum(GdpShocks(s, n))[i])],
         unemployment_rate |-> Clip(UnempWalk(s, n), UnempLo, UnempHi),
         inflation_rate |-> InflDraws(s, n),
         interest_rate |-> Maximum(0, RateDraws(s, n))]]

\* df.set_index(name, inplace=True): the column becomes the index.
SetIndex(df, name) ==
    [index |-> df.columns[name],
     columns |-> [c \in (DOMAIN df.columns) \ {name} |-> df.columns[c]]]

\* Entry without the reseeding: the body draws from the state it finds.
SeedSkipped(s) == s

\* np.random.seed(42) at entry: the state the body draws from.
SeedAtEntry(s) == SeedState(Seed)

\* Outcomes of a call.
Raised(e) == [kind |-> "raise", error |-> e]
Returned(v) == [kind |-> "value", value |-> v]

\* The call's outcome, entered with generator state s.  A negative size is
\* refused by the libraries (ValueError: negative dimensions are not
\* allowed); nothing in the function checks n_periods itself.
SampleOutcome(s, n, d) ==
    IF n < 0 THEN Raised("ValueError")
    ELSE Returned(SetIndex(RawFrame(SeedAtEntry(s), d, n), "date"))

\* The generator state the call leaves behind: seeded, then four blocks drawn
\* (none when the first sized call raises).
SampleRngAfter(s, n) ==
    IF n < 0 THEN SeedAtEntry(s) ELSE AdvanceBy(SeedAtEntry(s), 4 * n)

NoRef == [set |-> FALSE]

CreateSampleData(n, d) ==
    /\ last' = [op |-> "create_sample_data", n |-> n, d |-> d,
                rngBefore |-> rng, result |-> SampleOutcome(rng, n, d)]
    /\ rng' = SampleRngAfter(rng, n)
    /\ UNCHANGED <<gauss, ref, arg>>

\* The caller keeps the panel (or the failure) of the call just made, to
\* compare later calls against.
KeepResult ==
    /\ last.op = "create_sample_data"
    /\ ref' = [set |-> TRUE, n |-> last.n, d |-> last.d, result |-> last.result]
    /\ last' = [op |-> "keep"]
    /\ UNCHANGED <<rng, gauss, arg>>

\* Another caller draws one variate from the process-wide generator.
GlobalDraw ==
    /\ last' = [op |-> "np.random.normal", rngBefore |-> rng,
                result |-> Returned(StandardNormal(rng, 1)[1])]
    /\ rng' = Advance(rng)
    /\ UNCHANGED <<gauss, ref, arg>>

\* Another caller reseeds the process-wide generator.
GlobalSeed(s) ==
    /\ last' = [op |-> "np.random.seed", rngBefore |-> rng, result |-> Returned(s)]
    /\ rng' = SeedState(s)
    /\ UNCHANGED <<gauss, ref, arg>>

Init ==
    /\ rng \in RngStates
    /\ gauss \in [RngStates -> Variates]
    /\ last = [op |-> "start"]
    /\ ref = NoRef
    /\ arg = <<>>

Next ==
    \/ \E n \in PeriodArgs, d \in StartDates : CreateSampleData(n, d)
    \/ KeepResult
    \/ GlobalDraw
    \/ \E s \in OtherSeeds : GlobalSeed(s)

Spec == Init /\ [][Next]_vars

(***************************************************************************)
(* IEEE values as exact fractions <<num, den>>, den > 0 in lowest terms;   *)
(* den = 0 holds the special values.  Signed zeros are not distinguished.  *)
(***************************************************************************)
NaN == <<0, 0>>
NegInf == <<-1, 0>>

Abs(n) == IF n < 0 THEN -n ELSE n
Sign(n) == IF n > 0 THEN 1 ELSE IF n < 0 THEN -1 ELSE 0

RECURSIVE GCD(_, _)
GCD(a, b) == IF b = 0 THEN a ELSE GCD(b, a % b)

\* n / d of two integers; n / 0 is NaN, inf or -inf by the sign of n.
Frac(n, d) ==
    IF d = 0 THEN <<Sign(n), 0>>
    ELSE LET g == GCD(Abs(n), Abs(d))
         IN  <<(Sign(d) * n) \div g, (Sign(d) * d) \div g>>

FromInt(n) == <<n, 1>>
IsNaN(a) == a = NaN
IsFinite(a) == a[2] # 0
FNeg(a) == <<-a[1], a[2]>>

FAdd(a, b) ==
    IF a[2] = 0 /\ b[2] = 0 THEN (IF a = b THEN a ELSE NaN)
    ELSE Frac(a[1] * b[2] + b[1] * a[2], a[2] * b[2])

FSub(a, b) == FAdd(a, FNeg(b))
FMul(a, b) == Frac(a[1] * b[1], a[2] * b[2])

FDiv(a, b) ==
    LET aa == IF b[1] < 0 THEN FNeg(a) ELSE a
        bb == IF b[1] < 0 THEN FNeg(b) ELSE b
    IN  Frac(aa[1] * bb[2], aa[2] * bb[1])

\* a < b for finite a, b.
FLess(a, b) == a[1] * b[2] < b[1] * a[2]

RECURSIVE FSum(_, _)
FSum(xs, i) == IF i = 0 THEN FromInt(0) ELSE FAdd(FSum(xs, i - 1), xs[i])

\* The sum of a sequence of fractions (0 for the empty one).
FTotal(xs) == FSum(xs, Len(xs))

\* np.mean / nanmean of values already free of NaN: 0 / 0 is NaN when empty.
FMean(xs) == FDiv(FTotal(xs), FromInt(Len(xs)))

(***************************************************************************)
(* pandas Series helpers.  A Series is its sequence of values; its index   *)
(* is the positions 1 .. Len.                                              *)
(***************************************************************************)
\* Series.dropna()
DropNa(xs) == SelectSeq(xs, LAMBDA v : ~IsNaN(v))

RECURSIVE LastValid(_, _)
LastValid(xs, i) ==
    IF i = 0 THEN NaN ELSE IF ~IsNaN(xs[i]) THEN xs[i] ELSE LastValid(xs, i - 1)

\* Series.ffill(): a missing value takes the last valid value before it.
FFill(xs) == [i \in 1 .. Len(xs) |-> LastValid(xs, i)]

\* Series.shift(p)
Shift(xs, p) ==
    [i \in 1 .. Len(xs) |-> IF i - p \in 1 .. Len(xs) THEN xs[i - p] ELSE NaN]

\* The fill pct_change applies before it divides: fill_method defaults to
\* 'pad' (forward fill) in pandas 1.x and 2.x.
PctChangeFill(xs) == FFill(xs)

\* Series.pct_change(periods=p): data / data.shift(p) - 1 on the filled data.
PctChange(xs, p) ==
    LET data == PctChangeFill(xs)
        shifted == Shift(data, p)
    IN  [i \in 1 .. Len(xs) |-> FSub(FDiv(data[i], shifted[i]), FromInt(1))]

\* calculate_growth_rate(data, periods)
GrowthRate(xs, p) == [i \in 1 .. Len(xs) |-> FMul(PctChange(xs, p)[i], FromInt(100))]

\* The values of xs at positions lo .. hi.
Window(xs, lo, hi) == [k \in 1 .. (hi - lo + 1) |-> xs[lo + k - 1]]

\* A rolling mean whose window reaches one step ahead of the current row.
LeadingRollingMean(xs, w) ==
    [i \in 1 .. Len(xs) |->
        IF w = 0 \/ i + 1 < w \/ i + 1 > Len(xs) THEN NaN
        ELSE FMean(Window(xs, i - w + 2, i + 1))]

\* Series.rolling(window=w).mean() for w >= 0: min_periods is w, so a
\* window that is short or holds a missing value gives NaN.
RollingMean(xs, w) ==
    [i \in 1 .. Len(xs) |->
        IF w = 0 \/ i < w THEN NaN
        ELSE IF \E k \in (i - w + 1) .. i : IsNaN(xs[k]) THEN NaN
        ELSE FMean(Window(xs, i - w + 1, i))]

\* calculate_moving_average(data, window): rolling() refuses a negative window.
MovingAverageOutcome(xs, w) ==
    IF w < 0 THEN Raised("ValueError") ELSE Returned(RollingMean(xs, w))

(***************************************************************************)
(* statsmodels' adfuller, as far as test_stationarity depends on it.       *)
(***************************************************************************)
\* p-values (hundredths) and test statistics (hundredths) the regression may
\* yield; they are not computed here.
PValues == {1, 5, 50}
AdfStats == {-350, -100}
CriticalValues == [one |-> -343, five |-> -286, ten |-> -257]

IsConstant(xs) == \A i, j \in 1 .. Len(xs) : xs[i] = xs[j]

\* The outcomes of adfuller(x) with its defaults (regression 'c', autolag
\* 'AIC'): maxlag is min(nobs // 2 - 2, Schwert's 12 (nobs/100)^(1/4)), the
\* first for every nobs <= 16; a negative maxlag, an empty or a constant x
\* raises ValueError.
AdfullerOutcomes(x) ==
    LET nobs == Len(x)
        maxlag == nobs \div 2 - 2
    IN  IF nobs = 0 \/ IsConstant(x) \/ maxlag < 0
        THEN {Raised("ValueError")}
        ELSE {Returned(<<stat, p, lag, nobs - 1 - lag, CriticalValues>>) :
                 stat \in AdfStats, p \in PValues, lag \in 0 .. maxlag}

\* The dictionary test_stationarity builds from adfuller's tuple; an
\* exception of adfuller passes through, nothing catches it.
StationarityOutput(r) ==
    IF r.kind = "raise" THEN r
    ELSE Returned([adf_statistic |-> r.value[1],
                   p_value |-> r.value[2],
                   used_lag |-> r.value[3],
                   n_observations |-> r.value[4],
                   critical_values |-> r.value[5],
                   is_stationary |-> r.value[2] < 5])

\* test_stationarity(data): every outcome it can have.
StationarityOutcomes(xs) ==
    {StationarityOutput(r) : r \in AdfullerOutcomes(DropNa(xs))}

(***************************************************************************)
(* Least squares of a series against its 0-based position.                 *)
(***************************************************************************)
Positions(n) == [i \in 1 .. n |-> FromInt(i - 1)]

Dot(xs, ys) == FTotal([i \in 1 .. Len(xs) |-> FMul(xs[i], ys[i])])

\* n * sum(a b) - sum(a) sum(b): n^2 times the covariance of a and b.
CrossMoment(xs, ys) ==
    FSub(FMul(FromInt(Len(xs)), Dot(xs, ys)), FMul(FTotal(xs), FTotal(ys)))

OlsSlope(ys) ==
    LET xs == Positions(Len(ys))
    IN  FDiv(CrossMoment(xs, ys), CrossMoment(xs, xs))

OlsIntercept(ys) ==
    LET xs == Positions(Len(ys))
    IN  FDiv(FSub(FTotal(ys), FMul(OlsSlope(ys), FTotal(xs))), FromInt(Len(ys)))

OlsRSquared(ys) ==
    LET xs == Positions(Len(ys))
    IN  FDiv(FMul(CrossMoment(xs, ys), CrossMoment(xs, ys)),
             FMul(CrossMoment(xs, xs), CrossMoment(ys, ys)))

\* ys minus its least-squares line.
OlsResiduals(ys) ==
    [i \in 1 .. Len(ys) |->
        FSub(ys[i], FAdd(OlsIntercept(ys), FMul(OlsSlope(ys), FromInt(i - 1))))]

\* np.log of a value, to three decimals for the integers the model uses;
\* log(0) is -inf, and NaN stays NaN.
Log(v) ==
    IF ~IsFinite(v) THEN v
    ELSE IF v[1] = 0 THEN NegInf
    ELSE IF v[1] < 0 THEN NaN
    ELSE IF v = FromInt(1) THEN FromInt(0)
    ELSE IF v = FromInt(2) THEN Frac(693, 1000)
    ELSE IF v = FromInt(3) THEN Frac(1099, 1000)
    ELSE Frac(1386, 1000)

\* scipy.signal.detrend(values): the least-squares line is removed from a
\* copy (overwrite_data is False).  A value that is not finite is refused
\* (ValueError); one point fits exactly; no point at all divides by zero.
SignalDetrend(ys) ==
    IF Len(ys) = 0 THEN Raised("ZeroDivisionError")
    ELSE IF \E i \in 1 .. Len(ys) : ~IsFinite(ys[i]) THEN Raised("ValueError")
    ELSE IF Len(ys) = 1 THEN Returned(<<FromInt(0)>>)
    ELSE Returned(OlsResiduals(ys))

\* detrend_series(data, method)
DetrendOutcome(xs, method) ==
    IF method = "linear" THEN SignalDetrend(xs)
    ELSE IF method = "log" THEN SignalDetrend([i \in 1 .. Len(xs) |-> Log(xs[i])])
    ELSE Raised("ValueError")

(***************************************************************************)
(* Column statistics (pandas, skipna).  Where the definition takes a       *)
(* square root the model keeps the square, with the sign of the value:     *)
(* 'Std Dev' is the variance, 'Skewness' and a correlation are sign * v^2. *)
(***************************************************************************)
Deviations(xs) == [i \in 1 .. Len(xs) |-> FSub(xs[i], FMean(xs))]

\* The sum of the k-th powers of the deviations from the mean.
RECURSIVE FPow(_, _)
FPow(v, k) == IF k = 0 THEN FromInt(1) ELSE FMul(v, FPow(v, k - 1))

CentralSum(xs, k) ==
    FTotal([i \in 1 .. Len(xs) |-> FPow(Deviations(xs)[i], k)])

CountBelow(xs, v) == Cardinality({i \in 1 .. Len(xs) : FLess(xs[i], v)})
CountUpTo(xs, v) == Cardinality({i \in 1 .. Len(xs) : ~FLess(v, xs[i])})

\* The k-th smallest of finite values.
KthSmallest(xs, k) ==
    CHOOSE v \in {xs[i] : i \in 1 .. Len(xs)} :
        CountBelow(xs, v) < k /\ CountUpTo(xs, v) >= k

ColMean(col) == FMean(DropNa(col))

ColMedian(col) ==
    LET xs == DropNa(col)
        n == Len(xs)
    IN  IF n = 0 THEN NaN
        ELSE IF n % 2 = 1 THEN KthSmallest(xs, (n + 1) \div 2)
        ELSE FDiv(FAdd(KthSmallest(xs, n \div 2), KthSmallest(xs, n \div 2 + 1)),
                  FromInt(2))

\* std(ddof=1), squared.
ColVariance(col) ==
    LET xs == DropNa(col)
    IN  IF Len(xs) = 0 THEN NaN
        ELSE FDiv(CentralSum(xs, 2), FromInt(Len(xs) - 1))

ColMin(col) ==
    LET xs == DropNa(col)
    IN  IF Len(xs) = 0 THEN NaN ELSE KthSmallest(xs, 1)

ColMax(col) ==
    LET xs == DropNa(col)
    IN  IF Len(xs) = 0 THEN NaN ELSE KthSmallest(xs, Len(xs))

\* nanskew: n sqrt(n - 1) / (n - 2) * m3 / m2^(3/2), as sign * square.
ColSkewness(col) ==
    LET xs == DropNa(col)
        n == Len(xs)
        m2 == CentralSum(xs, 2)
        m3 == CentralSum(xs, 3)
    IN  IF n < 3 THEN NaN
        ELSE IF m2 = FromInt(0) THEN FromInt(0)
        ELSE FMul(Frac(Sign(m3[1]) * n * n * (n - 1), (n - 2) * (n - 2)),
                  FDiv(FMul(m3, m3), FPow(m2, 3)))

\* nankurt
ColKurtosis(col) ==
    LET xs == DropNa(col)
        n == Len(xs)
        m2 == CentralSum(xs, 2)
        m4 == CentralSum(xs, 4)
    IN  IF n < 4 THEN NaN
        ELSE IF m2 = FromInt(0) THEN FromInt(0)
        ELSE FSub(FDiv(FMul(FromInt(n * (n + 1) * (n - 1)), m4),
                       FMul(FromInt((n - 2) * (n - 3)), FMul(m2, m2))),
                  Frac(3 * (n - 1) * (n - 1), (n - 2) * (n - 3)))

\* descriptive_statistics(data): one row of statistics per column.
DescriptiveStatistics(cols) ==
    [c \in DOMAIN cols |->
        [Mean |-> ColMean(cols[c]),
         Median |-> ColMedian(cols[c]),
         StdDev |-> ColVariance(cols[c]),
         Min |-> ColMin(cols[c]),
         Max |-> ColMax(cols[c]),
         Skewness |-> ColSkewness(cols[c]),
         Kurtosis |-> ColKurtosis(cols[c])]]

\* The rows in which both columns hold a value.
CompleteRows(xs, ys) == {i \in 1 .. Len(xs) : ~IsNaN(xs[i]) /\ ~IsNaN(ys[i])}

RECURSIVE PickRows(_, _, _)
PickRows(xs, rows, i) ==
    IF i > Len(xs) THEN <<>>
    ELSE IF i \in rows THEN <<xs[i]>> \o PickRows(xs, rows, i + 1)
    ELSE PickRows(xs, rows, i + 1)

\* Pearson's r of two columns over their complete rows, as sign * r^2; NaN
\* when a column is constant there or no row is complete.
Pearson(xs, ys) ==
    LET rows == CompleteRows(xs, ys)
        a == PickRows(xs, rows, 1)
        b == PickRows(ys, rows, 1)
        cov == CrossMoment(a, b)
        den == FMul(CrossMoment(a, a), CrossMoment(b, b))
    IN  IF rows = {} \/ den = FromInt(0) THEN NaN
        ELSE IF cov[1] < 0 THEN FNeg(FDiv(FMul(cov, cov), den))
        ELSE FDiv(FMul(cov, cov), den)

\* calculate_correlation_matrix(data): data.corr()
CorrelationMatrix(cols) ==
    [a \in DOMAIN cols |-> [b \in DOMAIN cols |-> Pearson(cols[a], cols[b])]]

(***************************************************************************)
(* statsmodels' seasonal_decompose(x, model, period).                      *)
(***************************************************************************)
\* The period of a monthly index, which period=None resolves to.
MonthlyPeriod == 12

\* The centred moving average: for an even period the two end points of the
\* window of period + 1 values weigh one half.
CentredTrend(xs, p) ==
    LET half == p \div 2
        n == Len(xs)
        w(t, k) == IF p % 2 = 0 /\ (k = t - half \/ k = t + half)
                   THEN FDiv(xs[k], FromInt(2)) ELSE xs[k]
    IN  [t \in 1 .. n |->
            IF t - half < 1 \/ t + half > n THEN NaN
            ELSE FDiv(FTotal([j \in 1 .. (2 * half + 1) |-> w(t, t - half + j - 1)]),
                      FromInt(p))]

IsMultiplicative(model) == model = "multiplicative"

\* The k-th of every p values, missing ones left out, averaged.
PhaseMean(ds, p, k) ==
    FMean(DropNa(PickRows(ds, {i \in 1 .. Len(ds) : (i - 1) % p = k}, 1)))

Decompose(xs, model, p) ==
    LET n == Len(xs)
        trend == CentredTrend(xs, p)
        detrended == [t \in 1 .. n |->
                         IF IsMultiplicative(model) THEN FDiv(xs[t], trend[t])
                         ELSE FSub(xs[t], trend[t])]
        means == [k \in 1 .. p |-> PhaseMean(detrended, p, k - 1)]
        centre == FMean(means)
        seasonal == [t \in 1 .. n |->
                        IF IsMultiplicative(model)
                        THEN FDiv(means[((t - 1) % p) + 1], centre)
                        ELSE FSub(means[((t - 1) % p) + 1], centre)]
        resid == [t \in 1 .. n |->
                     IF IsMultiplicative(model)
                     THEN FDiv(FDiv(xs[t], seasonal[t]), trend[t])
                     ELSE FSub(detrended[t], seasonal[t])]
    IN  <<trend, seasonal, resid>>

\* seasonal_decomposition(data, model, period): missing values, values <= 0
\* under the multiplicative model and fewer than two full cycles are refused.
DecompositionOutcome(xs, model, p) ==
    IF \E i \in 1 .. Len(xs) : ~IsFinite(xs[i]) THEN Raised("ValueError")
    ELSE IF IsMultiplicative(model) /\ \E i \in 1 .. Len(xs) : xs[i][1] <= 0
         THEN Raised("ValueError")
    ELSE IF Len(xs) < 2 * p THEN Raised("ValueError")
    ELSE Returned(Decompose(xs, model, p))

(***************************************************************************)
(* Names: what each module defines and what is imported from it.           *)
(***************************************************************************)
AnalysisUtilsDefs ==
    {"calculate_growth_rate", "calculate_log_returns", "calculate_moving_average",
     "detrend_series", "calculate_correlation_matrix", "plot_time_series",
     "plot_multiple_series", "plot_correlation_heatmap", "descriptive_statistics",
     "seasonal_decomposition", "plot_seasonal_decomposition", "test_stationarity"}

DataFetchersDefs ==
    {"FREDDataFetcher", "WorldBankDataFetcher", "PandasDataReaderFetcher",
     "create_sample_data"}

ModuleDefs(m) == IF m = "analysis_utils" THEN AnalysisUtilsDefs ELSE DataFetchersDefs

\* from .data_fetchers import (...) and from .analysis_utils import (...)
PackageImports(m) ==
    IF m = "analysis_utils"
    THEN {"calculate_growth_rate", "calculate_moving_average", "detect_trend",
          "calculate_correlation_matrix", "plot_time_series", "plot_multiple_series",
          "plot_correlation_heatmap", "perform_stationarity_test",
          "calculate_summary_statistics"}
    ELSE {"FREDDataFetcher", "WorldBankDataFetcher", "PandasDataReaderFetcher",
          "create_sample_data"}

\* The imports of example.py.
ExampleImports(m) ==
    IF m = "analysis_utils"
    THEN {"calculate_growth_rate", "calculate_moving_average",
          "calculate_summary_statistics", "calculate_correlation_matrix"}
    ELSE {"create_sample_data"}

Modules == {"data_fetchers", "analysis_utils"}

\* from <m> import <name>
ImportFrom(m, name) ==
    IF name \in ModuleDefs(m) THEN Returned(name) ELSE Raised("ImportError")

(***************************************************************************)
(* The statistics calls.  arg is the object the caller holds and passes.   *)
(***************************************************************************)
SeriesValues == {NaN, FromInt(0), FromInt(1), FromInt(2)}

EmptySeries == [type |-> "Series", values |-> <<>>]

\* The series [0, 1, 2, 3, 4].
RampSeries ==
    [type |-> "Series",
     values |-> <<FromInt(0), FromInt(1), FromInt(2), FromInt(3), FromInt(4)>>]

IsSeries == arg.type = "Series"

StatCall(op, params, result) ==
    [op |-> op, params |-> params, argBefore |-> arg, result |-> result]

\* What a call that only reads its argument leaves of it.
ArgumentKept(a) == a

\* dropna(inplace=True) on the caller's Series.
ArgumentDroppedInPlace(a) ==
    IF a.type = "Series" THEN [a EXCEPT !.values = DropNa(a.values)] ELSE a

\* The caller's object after data.dropna(): dropna returns a new Series.
ArgumentAfterDropNa(a) == ArgumentKept(a)

\* The caller extends the series it holds by one observation.
AppendValue(v) ==
    /\ IsSeries
    /\ Len(arg.values) < MaxLen
    /\ arg' = [arg EXCEPT !.values = Append(arg.values, v)]
    /\ last' = [op |-> "input"]
    /\ UNCHANGED <<rng, gauss, ref>>

\* The caller takes the series [0, 1, 2, 3, 4].
TakeRamp ==
    /\ arg = EmptySeries
    /\ arg' = RampSeries
    /\ last' = [op |-> "input"]
    /\ UNCHANGED <<rng, gauss, ref>>

CalculateGrowthRate(p) ==
    /\ IsSeries
    /\ last' = StatCall("calculate_growth_rate", p, Returned(GrowthRate(arg.values, p)))
    /\ arg' = ArgumentKept(arg)
    /\ UNCHANGED <<rng, gauss, ref>>

CalculateMovingAverage(w) ==
    /\ IsSeries
    /\ last' = StatCall("calculate_moving_average", w, MovingAverageOutcome(arg.values, w))
    /\ arg' = ArgumentKept(arg)
    /\ UNCHANGED <<rng, gauss, ref>>

TestStationarity ==
    /\ IsSeries
    /\ \E r \in StationarityOutcomes(arg.values) :
          last' = StatCall("test_stationarity", 0, r)
    /\ arg' = ArgumentAfterDropNa(arg)
    /\ UNCHANGED <<rng, gauss, ref>>

\* from <m> import <name>, for a name the package or the example imports.
\* Import statements run first, before any data is touched.
ImportName(m, name) ==
    /\ last.op \in {"start", "import"}
    /\ last' = StatCall("import", <<m, name>>, ImportFrom(m, name))
    /\ UNCHANGED <<rng, gauss, ref, arg>>

\* A caller of detect_trend(series): the name is imported first, and the call
\* is made only if the import gave a function.  analysis_utils defines no
\* detect_trend, so there is no body to enter.
DetectTrend ==
    /\ IsSeries
    /\ last' = StatCall("detect_trend", 0, ImportFrom("analysis_utils", "detect_trend"))
    /\ UNCHANGED <<rng, gauss, ref, arg>>

FrameValuesX == {NaN, FromInt(1), FromInt(2)}
FrameValuesY == {FromInt(1), FromInt(2)}

EmptyFrame == [type |-> "DataFrame", columns |-> [x |-> <<>>, y |-> <<>>]]

IsFrame == arg.type = "DataFrame"

\* The caller extends the frame it holds by one row.
AppendRow(vx, vy) ==
    /\ IsFrame
    /\ Len(arg.columns.x) < MaxRows
    /\ arg' = [arg EXCEPT !.columns = [x |-> Append(arg.columns.x, vx),
                                       y |-> Append(arg.columns.y, vy)]]
    /\ last' = [op |-> "input"]
    /\ UNCHANGED <<rng, gauss, ref>>

DetrendSeries(method) ==
    /\ IsSeries
    /\ last' = StatCall("detrend_series", method, DetrendOutcome(arg.values, method))
    /\ arg' = ArgumentKept(arg)
    /\ UNCHANGED <<rng, gauss, ref>>

SeasonalDecomposition(model, period) ==
    /\ IsSeries
    /\ last' = StatCall("seasonal_decomposition", <<model, period>>,
                        DecompositionOutcome(arg.values, model, period))
    /\ arg' = ArgumentKept(arg)
    /\ UNCHANGED <<rng, gauss, ref>>

CalculateCorrelationMatrix ==
    /\ IsFrame
    /\ last' = StatCall("calculate_correlation_matrix", 0,
                        Returned(CorrelationMatrix(arg.columns)))
    /\ arg' = ArgumentKept(arg)
    /\ UNCHANGED <<rng, gauss, ref>>

DescribeFrame ==
    /\ IsFrame
    /\ last' = StatCall("descriptive_statistics", 0,
                        Returned(DescriptiveStatistics(arg.columns)))
    /\ arg' = ArgumentKept(arg)
    /\ UNCHANGED <<rng, gauss, ref>>

PeriodsArgs == 0 .. MaxStep
WindowArgs == (-1) .. (MaxStep + 1)
DetrendMethods == {"linear", "log", "cubic"}
DecompositionModels == {"additive", "multiplicative"}
DecompositionPeriods == (1 .. MaxStep) \cup {MonthlyPeriod}

ImportedNames(m) == PackageImports(m) \cup ExampleImports(m)

StatInit ==
    /\ rng = SeedState(Seed)
    /\ gauss = [s \in RngStates |-> 1]
    /\ ref = NoRef
    /\ last = [op |-> "start"]
    /\ arg \in {EmptySeries, EmptyFrame}

StatNext ==
    \/ \E v \in SeriesValues : AppendValue(v)
    \/ TakeRamp
    \/ \E vx \in FrameValuesX, vy \in FrameValuesY : AppendRow(vx, vy)
    \/ \E p \in PeriodsArgs : CalculateGrowthRate(p)
    \/ \E w \in WindowArgs : CalculateMovingAverage(w)
    \/ \E method \in DetrendMethods : DetrendSeries(method)
    \/ \E model \in DecompositionModels, period \in DecompositionPeriods :
          SeasonalDecomposition(model, period)
    \/ TestStationarity
    \/ CalculateCorrelationMatrix
    \/ DescribeFrame
    \/ DetectTrend
    \/ \E m \in Modules : \E name \in ImportedNames(m) : ImportName(m, name)

StatSpec == StatInit /\ [][StatNext]_vars

(***************************************************************************)
(* FREDDataFetcher.get_series, as data_fetchers and as api_utils define    *)
(* it, and a pipeline that mixes the generator, the fetchers and the       *)
(* statistics on one short series.                                         *)
(***************************************************************************)
FetcherModules == {"data_fetchers", "api_utils"}

\* api_key as the constructor stores it: None, the empty string, a key.
ApiKeys == {"None", "", "key"}

\* `not self.api_key`
KeyMissing(k) == k \in {"None", ""}

\* What the FRED service does with one request: it answers, it refuses the
\* request, or it cannot be reached.
RemoteAnswers == {"data", "refused", "unreachable"}

\* The observations of an answered request.
FredData == <<FromInt(1), FromInt(2)>>

\* fredapi's Fred(api_key).get_series(...) for one request.
FredGetSeries(answer) ==
    CASE answer = "data" -> Returned(FredData)
      [] answer = "refused" -> Raised("ValueError")
      [] OTHER -> Raised("URLError")

\* A body that sends the request once more after a failed one.
RequestsRetried(r) == IF r.kind = "raise" THEN 2 ELSE 1

\* The requests the body sends once it reaches fred.get_series: the call is
\* in no loop.
RequestsSent(r) == 1

Attempt(r, n) == [result |-> r, requests |-> n]

\* The try block: the import, the key test, the request.
TryBlock(k, installed, answer) ==
    IF ~installed THEN Attempt(Raised("ImportError"), 0)
    ELSE IF KeyMissing(k) THEN Attempt(Raised("ValueError"), 0)
    ELSE Attempt(FredGetSeries(answer), RequestsSent(FredGetSeries(answer)))

\* The except clauses.  data_fetchers prints and returns pd.Series() for
\* ImportError and for every other Exception, its own ValueError included;
\* api_utils raises ImportError anew and catches nothing else.
ExceptClauses(m, t) ==
    IF t.result.kind = "value" THEN t
    ELSE IF m = "data_fetchers" THEN [t EXCEPT !.result = Returned(<<>>)]
    ELSE t

\* m.FREDDataFetcher(api_key=k).get_series(series_id): every outcome it can
\* have, over fredapi being installed or not and over the service's answer.
GetSeriesOutcomes(m, k) ==
    {ExceptClauses(m, TryBlock(k, installed, answer)) :
        installed \in BOOLEAN, answer \in RemoteAnswers}

GetSeries(m, k) ==
    /\ \E t \in GetSeriesOutcomes(m, k) :
          last' = [op |-> "get_series", params |-> [module |-> m, api_key |-> k],
                   argBefore |-> arg, result |-> t.result, requests |-> t.requests]
    /\ UNCHANGED <<rng, gauss, ref, arg>>

\* The generator's output table in the pipeline: far variates of both signs.
PipelineTable == [s \in RngStates |-> IF s % 2 = 0 THEN 250 ELSE -250]

\* The start date the pipeline's panels begin at.
PipelineDates == {<<2015, 1, 1>>}

PipelineInit ==
    /\ rng = SeedState(Seed)
    /\ gauss = PipelineTable
    /\ ref = NoRef
    /\ last = [op |-> "start"]
    /\ arg = EmptySeries

PipelineNext ==
    \/ \E v \in SeriesValues : Len(arg.values) < MaxShort /\ AppendValue(v)
    \/ \E n \in PeriodArgs, d \in PipelineDates : CreateSampleData(n, d)
    \/ GlobalDraw
    \/ \E p \in PeriodsArgs : CalculateGrowthRate(p)
    \/ \E w \in WindowArgs : CalculateMovingAverage(w)
    \/ TestStationarity
    \/ \E m \in FetcherModules, k \in ApiKeys : GetSeries(m, k)

PipelineSpec == PipelineInit /\ [][PipelineNext]_vars

(***************************************************************************)
(* Claims about create_sample_data.                                        *)
(***************************************************************************)
IsSampleCall == last.op = "create_sample_data"
IsPanel == IsSampleCall /\ last.result.kind = "value"
PanelColumns == last.result.value.columns
PanelIndex == last.result.value.index

\* C1: two calls of create_sample_data with the same n_periods > 0 and the
\* same start date return the same panel (index, columns, values), whatever
\* draws, reseedings or other create_sample_data calls came in between.
C1_SameArgumentsSamePanel ==
    (IsSampleCall /\ last.n > 0 /\ ref.set /\ ref.n = last.n /\ ref.d = last.d)
        => last.result = ref.result

\* C1 witness: a second call with the arguments of a kept earlier call, entered
\* from a generator state other than the seeded one, returned a panel.
C1_Witness ==
    /\ IsPanel /\ last.n > 0
    /\ ref.set /\ ref.n = last.n /\ ref.d = last.d
    /\ last.rngBefore # SeedState(Seed)
    /\ \E i, j \in RngStates : gauss[i] # gauss[j]

\* C2 (as claimed): every call with n_periods <= 0 fails with an error and
\* returns no panel.
C2_NonPositivePeriodsRejected ==
    (IsSampleCall /\ last.n <= 0) => last.result.kind = "raise"

\* C3 (as claimed): the call leaves the process-wide generator state as it
\* found it.
C3_GeneratorStateUntouched ==
    IsSampleCall => rng = last.rngBefore

\* C6: for n_periods > 0 the panel has the four fixed columns and exactly
\* n_periods rows, indexed by strictly increasing month-end timestamps of
\* consecutive months.
C6_PanelShape ==
    (IsSampleCall /\ last.n > 0) =>
        /\ last.result.kind = "value"
        /\ DOMAIN PanelColumns = ColumnNames
        /\ Len(PanelIndex) = last.n
        /\ \A c \in ColumnNames : Len(PanelColumns[c]) = last.n
        /\ \A i \in 1 .. last.n :
              PanelIndex[i][3] = DaysInMonth(PanelIndex[i][1], PanelIndex[i][2])
        /\ \A i \in 1 .. (last.n - 1) :
              /\ DateLess(PanelIndex[i], PanelIndex[i + 1])
              /\ MonthIndex(PanelIndex[i + 1]) = MonthIndex(PanelIndex[i]) + 1

\* C6 witness: a panel of MaxPeriods rows whose index crosses a year end.
C6_Witness ==
    /\ IsPanel /\ last.n = MaxPeriods /\ last.n > 1
    /\ PanelIndex[1][1] # PanelIndex[last.n][1]

\* C7: every unemployment_rate value of a returned panel lies in [2, 15].
C7_UnemploymentWithinBounds ==
    IsPanel =>
        \A i \in 1 .. Len(PanelColumns.unemployment_rate) :
            /\ PanelColumns.unemployment_rate[i] >= UnempLo
            /\ PanelColumns.unemployment_rate[i] <= UnempHi

\* C7 witness: a panel in which the random walk left [2, 15] upwards in one
\* row and, in another row, stayed inside it.
C7_Witness ==
    /\ IsPanel /\ last.n > 1
    /\ \E i, j \in 1 .. last.n :
          /\ UnempWalk(SeedState(Seed), last.n)[i] > UnempHi
          /\ PanelColumns.unemployment_rate[i] = UnempHi
          /\ UnempWalk(SeedState(Seed), last.n)[j] \in UnempLo .. UnempHi
          /\ PanelColumns.unemployment_rate[j] = UnempWalk(SeedState(Seed), last.n)[j]

\* C8: every interest_rate value of a returned panel is >= 0: a negative
\* draw is replaced by 0 and a non-negative draw is kept as drawn.
C8_InterestRateFloored ==
    IsPanel =>
        \A i \in 1 .. Len(PanelColumns.interest_rate) :
            /\ PanelColumns.interest_rate[i] >= 0
            /\ PanelColumns.interest_rate[i] =
                  IF RateDraws(SeedState(Seed), last.n)[i] < 0
                  THEN 0 ELSE RateDraws(SeedState(Seed), last.n)[i]

\* C8 witness: a panel with a negative draw floored and a positive draw kept.
C8_Witness ==
    /\ IsPanel
    /\ \E i, j \in 1 .. last.n :
          /\ RateDraws(SeedState(Seed), last.n)[i] < 0
          /\ PanelColumns.interest_rate[i] = 0
          /\ RateDraws(SeedState(Seed), last.n)[j] > 0
          /\ PanelColumns.interest_rate[j] = RateDraws(SeedState(Seed), last.n)[j]

(***************************************************************************)
(* Claims about the statistics calls.                                      *)
(***************************************************************************)
ArgValues == last.argBefore.values
ValidPoints == Len(DropNa(ArgValues))

\* C4 (as claimed): the stationarity test on a series with fewer than 3
\* non-missing points returns a result value carrying an error indication;
\* it does not raise.
C4_ShortSeriesGivesErrorResult ==
    (last.op = "test_stationarity" /\ ValidPoints < 3) =>
        /\ last.result.kind = "value"
        /\ "error" \in DOMAIN last.result.value

\* C5 (as claimed): detect_trend(series) can be called; with fewer than 2
\* non-missing points it returns (slope, intercept, R^2) all undefined, and
\* otherwise the least-squares slope, intercept and R^2 of the non-missing
\* values against a 0-based index (1, 0, 1 on [0, 1, 2, 3, 4]).
C5_DetectTrendResult ==
    last.op = "detect_trend" =>
        /\ last.result.kind = "value"
        /\ last.result.value =
              IF ValidPoints < 2 THEN <<NaN, NaN, NaN>>
              ELSE <<OlsSlope(DropNa(ArgValues)), OlsIntercept(DropNa(ArgValues)),
                     OlsRSquared(DropNa(ArgValues))>>
        /\ last.argBefore = RampSeries =>
              last.result.value = <<FromInt(1), FromInt(0), FromInt(1)>>

StatisticsOps ==
    {"calculate_growth_rate", "calculate_moving_average", "calculate_correlation_matrix",
     "descriptive_statistics", "test_stationarity", "seasonal_decomposition",
     "detrend_series"}

\* C9: no statistics operation mutates its argument: after the call the
\* caller's series or panel is what it was before the call.
C9_ArgumentUnchanged ==
    last.op \in StatisticsOps => arg = last.argBefore

\* C9 witness: the stationarity test, which drops missing values before it
\* tests, was called on a series holding both values and missing values.
C9_Witness ==
    /\ last.op = "test_stationarity"
    /\ ValidPoints > 0
    /\ ValidPoints < Len(arg.values)

\* C10 (as claimed): calculate_growth_rate(s, periods) has the length of s,
\* its first `periods` entries are missing, and every later entry t equals
\* 100 * (s[t] - s[t - periods]) / s[t - periods].
C10_GrowthRateFormula ==
    last.op = "calculate_growth_rate" =>
        /\ last.result.kind = "value"
        /\ Len(last.result.value) = Len(ArgValues)
        /\ \A t \in 1 .. Len(ArgValues) :
              IF t <= last.params THEN IsNaN(last.result.value[t])
              ELSE last.result.value[t] =
                      FDiv(FMul(FromInt(100),
                                FSub(ArgValues[t], ArgValues[t - last.params])),
                           ArgValues[t - last.params])

\* C11: calculate_moving_average(s, w), w >= 1, has the length of s; its
\* first w - 1 entries are missing and every later entry is the arithmetic
\* mean (the sum over w) of the w values ending at that entry, none ahead.
C11_TrailingWindowMean ==
    (last.op = "calculate_moving_average" /\ last.params >= 1) =>
        /\ last.result.kind = "value"
        /\ Len(last.result.value) = Len(ArgValues)
        /\ \A t \in 1 .. Len(ArgValues) :
              IF t < last.params THEN IsNaN(last.result.value[t])
              ELSE last.result.value[t] =
                      FDiv(FSum(Window(ArgValues, t - last.params + 1, t), last.params),
                           FromInt(last.params))

\* C11 witness: a window of 2 over a series of at least 3 values, the last
\* two of them different, whose last entry is a mean that is no whole number.
C11_Witness ==
    /\ last.op = "calculate_moving_average" /\ last.params = 2
    /\ Len(ArgValues) >= 3
    /\ IsNaN(last.result.value[1])
    /\ IsFinite(last.result.value[Len(ArgValues)])
    /\ last.result.value[Len(ArgValues)][2] = 2
    /\ ArgValues[Len(ArgValues)] # ArgValues[Len(ArgValues) - 1]

\* C12 (as claimed): get_series on a fetcher with no API key, of either
\* module, ends in an error raised to the caller; it never returns a Series.
C12_MissingKeyRaises ==
    (last.op = "get_series" /\ KeyMissing(last.params.api_key)) =>
        last.result.kind = "raise"

PipelineOps ==
    {"create_sample_data", "get_series", "test_stationarity",
     "calculate_growth_rate", "calculate_moving_average"}

\* What each generator, fetcher and statistics call would return, and the
\* generator state it would leave, if it were the next call made with
\* np.random in state r and the caller's series being a; for every argument.
LaterOutcomes(r, a) ==
    [sample |-> [n \in PeriodArgs, d \in PipelineDates |-> SampleOutcome(r, n, d)],
     sampleRng |-> [n \in PeriodArgs |-> SampleRngAfter(r, n)],
     growth |-> [p \in PeriodsArgs |-> GrowthRate(a.values, p)],
     average |-> [w \in WindowArgs |-> MovingAverageOutcome(a.values, w)],
     stationarity |-> StationarityOutcomes(a.values),
     fetch |-> [m \in FetcherModules, k \in ApiKeys |-> GetSeriesOutcomes(m, k)]]

C14_ImportsResolve ==
    last.op = "import" => last.result.kind = "value"

====
